---- MODULE Spec2Model ----
(***************************************************************************)
(* A model of the crawl orchestrator of src/src/scrape_simple.py: main(),  *)
(* its closures ensure_driver / establish_session / refresh_session, and   *)
(* the helpers fetch_page_html, scrape_category_page, scrape_product_page  *)
(* and save_products_html.                                                 *)
(*                                                                         *)
(* The program is sequential.  pc is the position of main(); every action  *)
(* is one stretch of code between two points at which the environment can  *)
(* act (a GET is answered, the browser answers, the operator presses       *)
(* Ctrl-C, the disk fails).  The web the crawler sees is the fixed world   *)
(* below; what each request returns is chosen freshly at every attempt.    *)
(***************************************************************************)
EXTENDS Integers, Sequences, FiniteSets, TLC

(***************************************************************************)
(* Bounds of the model                                                     *)
(***************************************************************************)
\* largest --max-pages-per-category tried (0 = unlimited)
MaxPageLimit == 2
\* largest --max-products tried (0 = no cap)
MaxProductCap == 2
\* largest retries argument tried when fetch_page_html is checked on its own
MaxRetries == 3
\* room of the page queue; the code's queue never gets near it (QueueRoomFree)
QueueCap == 6
\* largest number of different links in a document given to extract_product_links
MaxLinks == 2

\* fetch_page_html(session, url, retries=3): every caller uses the default
DefaultRetries == 3
\* page_limit = None (line 421), written as a number that is no page count
NoLimit == -1

(***************************************************************************)
(* The world: URLs, hosts, listing pages and what they link to             *)
(***************************************************************************)
Hosts == {"a", "b"}

Url(h, p) == [host |-> h, path |-> p]
NoUrl == Url("", "")

A1 == Url("a", "cat1")
A2 == Url("a", "cat1?page=2")
B1 == Url("b", "cat")
P1 == Url("a", "p1")
P2 == Url("a", "p2")
Q1 == Url("b", "q1")

ListingPages == {A1, A2, B1}
ProductPages == {P1, P2, Q1}
AllUrls == ListingPages \cup ProductPages

\* urllib.parse.urlparse(url).netloc
netloc(url) == url.host

\* the pagination links scrape_category_page finds on a listing page, in
\* document order (absolute, after urljoin)
PaginationOf(page) ==
    CASE page = A1 -> <<A2, A1, B1>>
      [] page = A2 -> <<A1, B1>>
      [] page = B1 -> <<B1>>
      [] OTHER     -> <<>>

\* the product links extract_product_links finds on a listing page
ProductsOf(page) ==
    CASE page = A1 -> {P1, P2}
      [] page = A2 -> {P2, Q1}
      [] page = B1 -> {Q1, P1}
      [] OTHER     -> {}

\* the contents of pages_url.json tried
SeedLists == { <<A1>>, <<A1, B1>>, <<B1, A1>> }

(***************************************************************************)
(* Values                                                                  *)
(***************************************************************************)
\* a requests.Session: the host whose cookies it carries
Session(h) == [host |-> h]
NoSession == Session("")

\* response.text of a 200 answer for url; NoDoc is Python's None
Doc(url) == [of |-> url]
NoDoc == Doc(NoUrl)

\* int(time.time()); no claim depends on its value
Timestamp == "epoch-seconds"

NoRecord == [market |-> "", category_page |-> NoUrl, product_url |-> NoUrl,
             fetched_at |-> "", html |-> NoDoc]

\* the frame of one fetch_page_html call
IdleFetch == [status |-> "idle", url |-> NoUrl, sess |-> NoSession,
              retries |-> 0, attempt |-> 0, gets |-> 0, sleeps |-> 0,
              log |-> <<>>, result |-> NoDoc]

CallFetch(s, u, k) == [status |-> "running", url |-> u, sess |-> s,
                       retries |-> k, attempt |-> 0, gets |-> 0, sleeps |-> 0,
                       log |-> <<>>, result |-> NoDoc]

\* the output file
AbsentFile == [state |-> "absent", content |-> <<>>]

VARIABLES
    \* run configuration and input
    category_urls, max_pages_per_category, max_products,
    \* main()
    pc, cat_idx, category_url, market_name, session, driver, host_sessions,
    all_products, scraped_urls,
    pages_seen, page_queue, pages_scraped, page_limit, current_page, page_session,
    todo, product_url, product_host, product_session, product_data,
    \* call frames
    est_url, est_ret, fetch, save_from,
    \* the world outside and what is recorded of the run
    file, saves, outcome, int_at, fail_cause, fetch_log, page_events,
    pages_fetched, fetched_ok, crawled,
    \* counts per host of completed bootstraps and of stored sessions dropped, and
    \* the number of browsers started
    boots, inval, browser_starts,
    \* the last thing done for a product (a fetch or the delay of line 483), the events
    \* of the product in hand, and the product URLs handed to scrape_product_page
    last_product_event, product_events, attempted,
    \* whether any GET of the run has failed
    any_failed,
    \* the number of page_queue.pop(0) calls of the walk (line 427) and the pages the
    \* walk has skipped after the second failure (line 442)
    dequeued, abandoned,
    \* extract_product_links: the links of the document and the set it builds
    html_links, product_links

cfgvars == <<category_urls, max_pages_per_category, max_products>>
mainvars == <<pc, cat_idx, category_url, market_name, session, driver, host_sessions,
              all_products, scraped_urls>>
walkvars == <<pages_seen, page_queue, pages_scraped, page_limit, current_page,
              page_session>>
prodvars == <<todo, product_url, product_host, product_session, product_data>>
framevars == <<est_url, est_ret, fetch, save_from>>
obsvars == <<file, saves, outcome, int_at, fail_cause, fetch_log, page_events,
             pages_fetched, fetched_ok, crawled>>
sessobs == <<boots, inval, browser_starts>>
prodobs == <<last_product_event, product_events, attempted>>
walkobs == <<dequeued, abandoned>>
extvars == <<html_links, product_links>>
vars == <<cfgvars, mainvars, walkvars, prodvars, framevars, obsvars, sessobs, prodobs,
          any_failed, walkobs, extvars>>

(***************************************************************************)
(* Initial states: main() after line 315, for every configuration tried    *)
(***************************************************************************)
Init ==
    /\ category_urls \in SeedLists
    /\ max_pages_per_category \in 0..MaxPageLimit
    /\ max_products \in 0..MaxProductCap
    /\ pc = "for_category"
    /\ cat_idx = 0
    /\ category_url = NoUrl
    /\ market_name = ""
    /\ session = NoSession
    /\ driver = "none"
    /\ host_sessions = [h \in Hosts |-> NoSession]
    /\ all_products = <<>>
    /\ scraped_urls = {}
    /\ pages_seen = {}
    /\ page_queue = <<>>
    /\ pages_scraped = 0
    /\ page_limit = 0
    /\ current_page = NoUrl
    /\ page_session = NoSession
    /\ todo = {}
    /\ product_url = NoUrl
    /\ product_host = ""
    /\ product_session = NoSession
    /\ product_data = NoRecord
    /\ est_url = NoUrl
    /\ est_ret = ""
    /\ fetch = IdleFetch
    /\ save_from = ""
    /\ file = AbsentFile
    /\ saves = <<>>
    /\ outcome = "RUNNING"
    /\ int_at = ""
    /\ fail_cause = ""
    /\ fetch_log = {}
    /\ page_events = <<>>
    /\ pages_fetched = {}
    /\ fetched_ok = {}
    /\ crawled = {}
    /\ boots = [h \in Hosts |-> 0]
    /\ inval = [h \in Hosts |-> 0]
    /\ browser_starts = 0
    /\ last_product_event = "none"
    /\ product_events = <<>>
    /\ attempted = {}
    /\ any_failed = FALSE
    /\ dequeued = 0
    /\ abandoned = {}
    /\ html_links = {}
    /\ product_links = {}

(***************************************************************************)
(* fetch_page_html(session, url, retries), one GET per step                *)
(***************************************************************************)
\* for attempt in range(retries): is there an iteration for this attempt
MoreAttemptsOffByOne(attempt, retries) == attempt <= retries

MoreAttempts(attempt, retries) == attempt < retries

\* time.sleep(5) is reached only in the except branch, and not after the last attempt
SleepsAfterError(attempt, retries) == attempt < retries - 1

\* the frame after a failed attempt: the loop goes on, or falls through to return None
AfterFailure(f, kind, slept) ==
    [f EXCEPT !.gets = @ + 1,
              !.log = Append(@, kind),
              !.sleeps = @ + (IF slept THEN 1 ELSE 0),
              !.attempt = @ + 1,
              !.status = IF MoreAttempts(f.attempt + 1, f.retries)
                         THEN "running" ELSE "returned"]

\* session.get(url) was sent with fetch.sess to fetch.url (line 196); a GET for a
\* listing page makes that page one the walk has fetched
LogGet ==
    /\ fetch_log' = fetch_log \cup
          {[url_host |-> netloc(fetch.url), sess_host |-> fetch.sess.host]}
    /\ pages_fetched' = IF pc \in {"page_fetch1", "page_fetch2"}
                        THEN pages_fetched \cup {fetch.url} ELSE pages_fetched

othervars == <<extvars, walkobs, sessobs, prodobs, cfgvars, mainvars, walkvars, prodvars, est_url, est_ret, save_from,
               file, saves, outcome, int_at, fail_cause, page_events, crawled>>

\* lines 196-198: status 200, return response.text
FetchOk ==
    /\ fetch.status = "running"
    /\ fetch' = [fetch EXCEPT !.gets = @ + 1, !.log = Append(@, "200"),
                              !.result = Doc(fetch.url), !.status = "returned"]
    /\ LogGet
    /\ fetched_ok' = IF pc = "prod_fetch" THEN fetched_ok \cup {fetch.url} ELSE fetched_ok
    /\ UNCHANGED <<othervars, any_failed>>

\* lines 199-200: another status; the loop goes on without a pause
FetchStatus ==
    /\ fetch.status = "running"
    /\ fetch' = AfterFailure(fetch, "status", FALSE)
    /\ LogGet
    /\ any_failed' = TRUE
    /\ UNCHANGED <<othervars, fetched_ok>>

\* lines 201-204: requests.exceptions.RequestException
FetchError ==
    /\ fetch.status = "running"
    /\ fetch' = AfterFailure(fetch, "error", SleepsAfterError(fetch.attempt, fetch.retries))
    /\ LogGet
    /\ any_failed' = TRUE
    /\ UNCHANGED <<othervars, fetched_ok>>

\* line 196: any other exception is not caught in fetch_page_html
FetchRaise ==
    /\ fetch.status = "running"
    /\ fetch' = [fetch EXCEPT !.gets = @ + 1, !.log = Append(@, "raise"),
                              !.status = "raised"]
    /\ LogGet
    /\ any_failed' = TRUE
    /\ UNCHANGED <<othervars, fetched_ok>>

FetchStep == FetchOk \/ FetchStatus \/ FetchError \/ FetchRaise

(***************************************************************************)
(* fetch_page_html on its own, for every retries in 1..MaxRetries          *)
(***************************************************************************)
InitFetch ==
    /\ category_urls \in SeedLists
    /\ max_pages_per_category = 0
    /\ max_products = 0
    /\ pc = "fetch_page_html"
    /\ cat_idx = 0
    /\ category_url = NoUrl
    /\ market_name = ""
    /\ session = NoSession
    /\ driver = "none"
    /\ host_sessions = [h \in Hosts |-> NoSession]
    /\ all_products = <<>>
    /\ scraped_urls = {}
    /\ pages_seen = {}
    /\ page_queue = <<>>
    /\ pages_scraped = 0
    /\ page_limit = 0
    /\ current_page = NoUrl
    /\ page_session = NoSession
    /\ todo = {}
    /\ product_url = NoUrl
    /\ product_host = ""
    /\ product_session = NoSession
    /\ product_data = NoRecord
    /\ est_url = NoUrl
    /\ est_ret = ""
    /\ \E u \in AllUrls, k \in 1..MaxRetries :
          fetch = CallFetch(Session(netloc(u)), u, k)
    /\ save_from = ""
    /\ file = AbsentFile
    /\ saves = <<>>
    /\ outcome = "RUNNING"
    /\ int_at = ""
    /\ fail_cause = ""
    /\ fetch_log = {}
    /\ page_events = <<>>
    /\ pages_fetched = {}
    /\ fetched_ok = {}
    /\ crawled = {}
    /\ boots = [h \in Hosts |-> 0]
    /\ inval = [h \in Hosts |-> 0]
    /\ browser_starts = 0
    /\ last_product_event = "none"
    /\ product_events = <<>>
    /\ attempted = {}
    /\ any_failed = FALSE
    /\ dequeued = 0
    /\ abandoned = {}
    /\ html_links = {}
    /\ product_links = {}

NextFetch == FetchOk \/ FetchStatus \/ FetchError \/ FetchRaise

SpecFetch == InitFetch /\ [][NextFetch]_vars

(***************************************************************************)
(* extract_product_links(html, base_url) on its own                        *)
(***************************************************************************)
\* a link of the document after urljoin (lines 137, 154), as the tests of the
\* function see it: whether a WooCommerce selector finds it (lines 123-133), whether
\* it holds '/product-category/' or '/category/' (lines 140-141), whether it is
\* base_url up to a trailing slash (lines 142, 185), whether it has the UUID shape
\* (lines 157-159) or the products.php/action=view shape (line 164), whether it holds
\* a product indicator (lines 169, 178) and whether it holds an excluded pattern
\* (lines 172-176, 179).  '/product/' is an indicator and '/category/' is excluded.
LinkShapes ==
    {l \in [selector : BOOLEAN, category : BOOLEAN, is_base : BOOLEAN, uuid : BOOLEAN,
            view : BOOLEAN, indicator : BOOLEAN, excluded : BOOLEAN] :
        /\ l.uuid => l.indicator
        /\ l.category => l.excluded}

\* lines 132-144: the links the WooCommerce selectors yield
StructuralLinks(links) ==
    {l \in links : l.selector /\ ~l.category /\ ~l.is_base}

\* lines 157-166: the two shapes that are added before the filter is reached
Shortcut(l) == l.uuid \/ l.view

\* lines 178-187: the filter of the fallback
PassesFilter(l) == l.indicator /\ ~l.excluded /\ ~l.is_base

\* lines 152-187: the links the fallback adds
FallbackLinks(links) == {l \in links : Shortcut(l) \/ PassesFilter(l)}

InitExtract ==
    /\ category_urls \in {<<A1>>}
    /\ max_pages_per_category = 0
    /\ max_products = 0
    /\ pc = "extract_structural"
    /\ cat_idx = 0
    /\ category_url = NoUrl
    /\ market_name = ""
    /\ session = NoSession
    /\ driver = "none"
    /\ host_sessions = [h \in Hosts |-> NoSession]
    /\ all_products = <<>>
    /\ scraped_urls = {}
    /\ pages_seen = {}
    /\ page_queue = <<>>
    /\ pages_scraped = 0
    /\ page_limit = 0
    /\ current_page = NoUrl
    /\ page_session = NoSession
    /\ todo = {}
    /\ product_url = NoUrl
    /\ product_host = ""
    /\ product_session = NoSession
    /\ product_data = NoRecord
    /\ est_url = NoUrl
    /\ est_ret = ""
    /\ fetch = IdleFetch
    /\ save_from = ""
    /\ file = AbsentFile
    /\ saves = <<>>
    /\ outcome = "RUNNING"
    /\ int_at = ""
    /\ fail_cause = ""
    /\ fetch_log = {}
    /\ page_events = <<>>
    /\ pages_fetched = {}
    /\ fetched_ok = {}
    /\ crawled = {}
    /\ boots = [h \in Hosts |-> 0]
    /\ inval = [h \in Hosts |-> 0]
    /\ browser_starts = 0
    /\ last_product_event = "none"
    /\ product_events = <<>>
    /\ attempted = {}
    /\ any_failed = FALSE
    /\ dequeued = 0
    /\ abandoned = {}
    /\ \E n \in 0..MaxLinks : \E f \in [1..n -> LinkShapes] :
          html_links = {f[i] : i \in 1..n}
    /\ product_links = {}

restvars == <<cfgvars, cat_idx, category_url, market_name, session, driver,
              host_sessions, all_products, scraped_urls, walkvars, prodvars,
              framevars, obsvars, sessobs, prodobs, any_failed, walkobs>>

\* lines 123-148: the selectors; what they yield is returned if it is not empty
ExtractStructural ==
    /\ pc = "extract_structural"
    /\ product_links' = StructuralLinks(html_links)
    /\ pc' = IF StructuralLinks(html_links) # {}
             THEN "extract_returned" ELSE "extract_fallback"
    /\ UNCHANGED <<restvars, html_links>>

\* lines 150-189: the fallback over every link of the document
ExtractFallback ==
    /\ pc = "extract_fallback"
    /\ product_links' = product_links \cup FallbackLinks(html_links)
    /\ pc' = "extract_returned"
    /\ UNCHANGED <<restvars, html_links>>

NextExtract == ExtractStructural \/ ExtractFallback

SpecExtract == InitExtract /\ [][NextExtract]_vars

(***************************************************************************)
(* establish_session / ensure_driver / refresh_session                     *)
(***************************************************************************)
\* establish_session(target_url, reason) is entered; ret is where its caller goes on
CallEstablish(url, ret) ==
    /\ est_url' = url
    /\ est_ret' = ret
    /\ pc' = "establish_session"

\* establish_session returns sess to its caller, which goes on to its next stop:
\* line 410 (session), line 438-439 (page_session, scrape_category_page again),
\* line 469-473 (product_session, scrape_product_page)
EstReturn(sess) ==
    /\ pc' = est_ret
    /\ session' = IF est_ret = "walk_init" THEN sess ELSE session
    /\ page_session' = IF est_ret = "page_fetch2" THEN sess ELSE page_session
    /\ product_session' = IF est_ret = "prod_fetch" THEN sess ELSE product_session
    /\ fetch' = CASE est_ret = "page_fetch2" -> CallFetch(sess, current_page, DefaultRetries)
                  [] est_ret = "prod_fetch"  -> CallFetch(sess, product_url, DefaultRetries)
                  [] OTHER                   -> IdleFetch

\* the try block is left by an exception: the handlers and the finally block read
\* all_products, driver and the options only, so the locals of the loops are dropped
DropLocals ==
    /\ category_url' = NoUrl
    /\ market_name' = ""
    /\ session' = NoSession
    /\ est_ret' = ""
    /\ pages_fetched' = {}
    /\ pages_seen' = {}
    /\ page_queue' = <<>>
    /\ pages_scraped' = 0
    /\ page_limit' = 0
    /\ current_page' = NoUrl
    /\ page_session' = NoSession
    /\ todo' = {}
    /\ product_url' = NoUrl
    /\ product_host' = ""
    /\ product_session' = NoSession
    /\ product_data' = NoRecord
    /\ page_events' = <<>>
    /\ product_events' = <<>>
    /\ dequeued' = 0
    /\ abandoned' = {}

\* an exception leaves the try block for line 505
Raise(cause) ==
    /\ pc' = "except_exception"
    /\ fail_cause' = cause
    /\ fetch' = IdleFetch
    /\ DropLocals

\* lines 352-355: a stored session is returned as it is
EstablishEntry ==
    /\ pc = "establish_session"
    /\ IF host_sessions[netloc(est_url)] # NoSession
       THEN EstReturn(host_sessions[netloc(est_url)])
       ELSE /\ pc' = "ensure_driver"
            /\ UNCHANGED <<session, page_session, product_session, fetch>>
    /\ UNCHANGED <<sessobs, prodobs, any_failed>>
    /\ UNCHANGED <<extvars, walkobs>>
    /\ UNCHANGED <<cfgvars, cat_idx, category_url, market_name, driver, host_sessions,
                   all_products, scraped_urls, pages_seen, page_queue, pages_scraped,
                   page_limit, current_page, todo, product_url, product_host,
                   product_data, est_url, est_ret, save_from, obsvars>>

\* lines 319-320: a browser is started only when none is held
StartsBrowserAlways(d) == TRUE

StartsBrowser(d) == d = "none"

\* lines 317-348: the browser is started once and kept
EnsureDriverOk ==
    /\ pc = "ensure_driver"
    /\ driver' = IF StartsBrowser(driver) THEN "open" ELSE driver
    /\ browser_starts' = browser_starts + (IF StartsBrowser(driver) THEN 1 ELSE 0)
    /\ pc' = "navigate"
    /\ UNCHANGED <<boots, inval, prodobs, any_failed>>
    /\ UNCHANGED <<extvars, walkobs>>
    /\ UNCHANGED <<cfgvars, cat_idx, category_url, market_name, session, host_sessions,
                   all_products, scraped_urls, walkvars, prodvars, framevars, obsvars>>

\* line 346: webdriver.Firefox(...) raises
EnsureDriverFail ==
    /\ pc = "ensure_driver"
    /\ driver = "none"
    /\ Raise("bootstrap")
    /\ UNCHANGED <<sessobs, last_product_event, attempted, any_failed>>
    /\ UNCHANGED extvars
    /\ UNCHANGED <<cfgvars, cat_idx, driver,
                   host_sessions, all_products, scraped_urls,
                   est_url, save_from, file, saves, outcome, int_at,
                   fetch_log, fetched_ok, crawled>>

\* line 386: host_sessions[host] = session
StoreSessionForgets(sessions, host, sess) == sessions

StoreSessionEverywhere(sessions, host, sess) == [h \in DOMAIN sessions |-> sess]

StoreSession(sessions, host, sess) == [sessions EXCEPT ![host] = sess]

\* lines 359-389: driver.get answers or times out (tolerated), the wait, the cookies,
\* the new session is stored under the host of target_url
NavigateOk ==
    /\ pc = "navigate"
    /\ \E loaded \in {"loaded", "TimeoutException"} :
          host_sessions' = StoreSession(host_sessions, netloc(est_url),
                                        Session(netloc(est_url)))
    /\ boots' = [boots EXCEPT ![netloc(est_url)] = @ + 1]
    /\ product_events' = IF est_ret = "prod_fetch"
                         THEN Append(product_events, "bootstrap") ELSE product_events
    /\ EstReturn(Session(netloc(est_url)))
    /\ page_events' = IF est_ret = "page_fetch2"
                      THEN Append(page_events, "bootstrap") ELSE page_events
    /\ UNCHANGED <<inval, browser_starts, last_product_event, attempted, any_failed>>
    /\ UNCHANGED <<extvars, walkobs>>
    /\ UNCHANGED <<cfgvars, cat_idx, category_url, market_name, driver,
                   all_products, scraped_urls, pages_seen, page_queue, pages_scraped,
                   page_limit, current_page, todo, product_url, product_host,
                   product_data, est_url, est_ret, save_from, file, saves, outcome,
                   int_at, fail_cause, fetch_log, pages_fetched, fetched_ok, crawled>>

\* line 367: driver.get raises something else than TimeoutException
NavigateFail ==
    /\ pc = "navigate"
    /\ Raise("bootstrap")
    /\ UNCHANGED <<sessobs, last_product_event, attempted, any_failed>>
    /\ UNCHANGED extvars
    /\ UNCHANGED <<cfgvars, cat_idx, driver,
                   host_sessions, all_products, scraped_urls,
                   est_url, save_from, file, saves, outcome, int_at,
                   fetch_log, fetched_ok, crawled>>

(***************************************************************************)
(* main(): the category loop and the walk of one category                  *)
(***************************************************************************)
\* line 399-415: the next category, or the loop is exhausted (line 488)
ForCategory ==
    /\ pc = "for_category"
    /\ IF cat_idx = Len(category_urls)
       THEN /\ pc' = "save"
            /\ UNCHANGED <<cat_idx, category_url, market_name, session, est_url, est_ret>>
       ELSE /\ cat_idx' = cat_idx + 1
            /\ category_url' = category_urls[cat_idx + 1]
            /\ market_name' = netloc(category_urls[cat_idx + 1])
            /\ IF host_sessions[netloc(category_urls[cat_idx + 1])] = NoSession
               THEN /\ CallEstablish(category_urls[cat_idx + 1], "walk_init")
                    /\ UNCHANGED session
               ELSE /\ session' = host_sessions[netloc(category_urls[cat_idx + 1])]
                    /\ pc' = "walk_init"
                    /\ UNCHANGED <<est_url, est_ret>>
    /\ UNCHANGED <<sessobs, prodobs, any_failed>>
    /\ UNCHANGED <<extvars, walkobs>>
    /\ UNCHANGED <<cfgvars, driver, host_sessions, all_products, scraped_urls,
                   walkvars, prodvars, fetch, save_from, obsvars>>

\* line 421
PageLimitOf(arg) == IF arg = 0 THEN NoLimit ELSE arg

\* lines 418-421
WalkInit ==
    /\ pc = "walk_init"
    /\ pages_seen' = {}
    /\ page_queue' = <<category_url>>
    /\ pages_scraped' = 0
    /\ page_limit' = PageLimitOf(max_pages_per_category)
    /\ pages_fetched' = {}
    /\ pc' = "while_page"
    /\ UNCHANGED <<sessobs, prodobs, any_failed>>
    /\ dequeued' = 0
    /\ abandoned' = {}
    /\ UNCHANGED extvars
    /\ UNCHANGED <<cfgvars, cat_idx, category_url, market_name, session, driver,
                   host_sessions, all_products, scraped_urls, current_page,
                   page_session, prodvars, framevars, file, saves, outcome, int_at,
                   fail_cause, fetch_log, page_events, fetched_ok, crawled>>

\* line 424
LimitReachedLate(limit, scraped) == limit # NoLimit /\ scraped > limit

LimitReachedNever(limit, scraped) == FALSE

LimitReached(limit, scraped) == limit # NoLimit /\ scraped >= limit

\* line 430: pages_seen.add(current_page)
AddSeenForgets(seen, page) == seen

AddSeen(seen, page) == seen \cup {page}

\* line 433: host_sessions.get(market_name) or session
PageSessionFor(market) ==
    IF host_sessions[market] # NoSession THEN host_sessions[market] ELSE session

\* lines 423-435: leave the loop, skip a page seen before, or fetch the next page
WhilePage ==
    /\ pc = "while_page"
    /\ IF page_queue = <<>> \/ LimitReached(page_limit, pages_scraped)
       THEN /\ pc' = "category_end"
            /\ crawled' = crawled \cup {cat_idx}
            /\ UNCHANGED <<walkvars, fetch, page_events, dequeued>>
       ELSE /\ current_page' = Head(page_queue)
            /\ page_queue' = Tail(page_queue)
            /\ dequeued' = dequeued + 1
            /\ UNCHANGED <<pages_scraped, page_limit, crawled>>
            /\ IF Head(page_queue) \in pages_seen
               THEN /\ pc' = "while_page"
                    /\ UNCHANGED <<pages_seen, page_session, fetch, page_events>>
               ELSE /\ pages_seen' = AddSeen(pages_seen, Head(page_queue))
                    /\ page_session' = PageSessionFor(market_name)
                    /\ fetch' = CallFetch(PageSessionFor(market_name), Head(page_queue),
                                          DefaultRetries)
                    /\ page_events' = <<>>
                    /\ pc' = "page_fetch1"
    /\ UNCHANGED <<sessobs, prodobs, any_failed>>
    /\ UNCHANGED <<extvars, abandoned>>
    /\ UNCHANGED <<cfgvars, cat_idx, category_url, market_name, session, driver,
                   host_sessions, all_products, scraped_urls, prodvars, est_url,
                   est_ret, save_from, file, saves, outcome, int_at, fail_cause,
                   fetch_log, pages_fetched, fetched_ok>>

\* n times the event e
Rep(e, n) == [i \in 1..n |-> e]

\* lines 445-447: the pagination links not seen yet, in order, repeats kept
NewLinks(links, seen) == SelectSeq(links, LAMBDA l : l \notin seen)

\* lines 444-452: scrape_category_page returned the links of doc
ScrapeSuccess(doc) ==
    /\ page_queue' = page_queue \o NewLinks(PaginationOf(doc.of), pages_seen)
    /\ Len(page_queue') <= QueueCap
    /\ pages_scraped' = pages_scraped + 1
    /\ todo' = ProductsOf(doc.of)
    /\ page_events' = <<>>
    /\ fetch' = IdleFetch
    /\ pc' = "for_product"

\* lines 391-396, entered from line 438: the stored session of the page's host is dropped
RefreshKeeps(sessions, url) == sessions

RefreshDrop(sessions, url) == [sessions EXCEPT ![netloc(url)] = NoSession]

\* lines 435-438: the first scrape_category_page of current_page has returned
PageFetched1 ==
    /\ pc = "page_fetch1"
    /\ fetch.status = "returned"
    /\ IF fetch.result = NoDoc
       THEN /\ host_sessions' = RefreshDrop(host_sessions, current_page)
            /\ inval' = [inval EXCEPT ![netloc(current_page)] =
                             @ + (IF host_sessions[netloc(current_page)] # NoSession
                                     /\ host_sessions'[netloc(current_page)] = NoSession
                                  THEN 1 ELSE 0)]
            /\ page_events' = page_events \o Rep("get", fetch.gets) \o <<"refresh">>
            /\ CallEstablish(current_page, "page_fetch2")
            /\ fetch' = IdleFetch
            /\ UNCHANGED <<page_queue, pages_scraped, todo>>
       ELSE /\ ScrapeSuccess(fetch.result)
            /\ UNCHANGED <<host_sessions, est_url, est_ret, inval>>
    /\ UNCHANGED <<boots, browser_starts, prodobs, any_failed>>
    /\ UNCHANGED <<extvars, walkobs>>
    /\ UNCHANGED <<cfgvars, cat_idx, category_url, market_name, session, driver,
                   all_products, scraped_urls, pages_seen, page_limit, current_page,
                   page_session, product_url, product_host, product_session,
                   product_data, save_from, file, saves, outcome, int_at, fail_cause,
                   fetch_log, pages_fetched, fetched_ok, crawled>>

\* lines 439-442: the second scrape_category_page, with the refreshed session, has returned
PageFetched2 ==
    /\ pc = "page_fetch2"
    /\ fetch.status = "returned"
    /\ IF fetch.result = NoDoc
       THEN /\ page_events' = page_events \o Rep("get", fetch.gets)
            /\ fetch' = IdleFetch
            /\ pc' = "page_abandon"
            /\ abandoned' = abandoned \cup {current_page}
            /\ UNCHANGED <<page_queue, pages_scraped, todo>>
       ELSE /\ ScrapeSuccess(fetch.result)
            /\ UNCHANGED abandoned
    /\ UNCHANGED <<sessobs, prodobs, any_failed>>
    /\ UNCHANGED <<extvars, dequeued>>
    /\ UNCHANGED <<cfgvars, cat_idx, category_url, market_name, session, driver,
                   host_sessions, all_products, scraped_urls, pages_seen, page_limit,
                   current_page, page_session, product_url, product_host,
                   product_session, product_data, est_url, est_ret, save_from, file,
                   saves, outcome, int_at, fail_cause, fetch_log, pages_fetched,
                   fetched_ok, crawled>>

\* line 442: continue, the while loop goes on with the rest of the queue
AfterPageAbandonEndsWalk == "category_end"

AfterPageAbandon == "while_page"

\* lines 441-442: the page is skipped
PageAbandon ==
    /\ pc = "page_abandon"
    /\ page_events' = <<>>
    /\ pc' = AfterPageAbandon
    /\ UNCHANGED <<sessobs, prodobs, any_failed>>
    /\ UNCHANGED <<extvars, walkobs>>
    /\ UNCHANGED <<cfgvars, cat_idx, category_url, market_name, session, driver,
                   host_sessions, all_products, scraped_urls, walkvars, prodvars,
                   framevars, file, saves, outcome, int_at, fail_cause, fetch_log,
                   pages_fetched, fetched_ok, crawled>>

\* an exception that fetch_page_html does not catch reaches line 505
FetchPropagates ==
    /\ pc \in {"page_fetch1", "page_fetch2", "prod_fetch"}
    /\ fetch.status = "raised"
    /\ Raise("fetch")
    /\ UNCHANGED <<sessobs, last_product_event, attempted, any_failed>>
    /\ UNCHANGED extvars
    /\ UNCHANGED <<cfgvars, cat_idx, driver,
                   host_sessions, all_products, scraped_urls,
                   est_url, save_from, file, saves, outcome, int_at,
                   fetch_log, fetched_ok, crawled>>

(***************************************************************************)
(* main(): the products of one listing page                                *)
(***************************************************************************)
\* line 456
IsDuplicateNever(url, scraped) == FALSE

IsDuplicate(url, scraped) == url \in scraped

\* lines 460 and 485: args.max_products and len(all_products) >= args.max_products
CapReachedLate(cap, n) == cap # 0 /\ n > cap

CapReached(cap, n) == cap # 0 /\ n >= cap

\* line 466
ProductHost(url, market) == IF netloc(url) # "" THEN netloc(url) ELSE market

\* lines 455-473: the next product link of the page, in the set's iteration order
ForProduct ==
    /\ pc = "for_product"
    /\ IF todo = {}
       THEN /\ pc' = "while_page"
            /\ UNCHANGED <<prodvars, est_url, est_ret, fetch>>
       ELSE \E u \in todo :
            IF IsDuplicate(u, scraped_urls)
            THEN /\ todo' = todo \ {u}
                 /\ pc' = "for_product"
                 /\ UNCHANGED <<product_url, product_host, product_session,
                                product_data, est_url, est_ret, fetch>>
            ELSE IF CapReached(max_products, Len(all_products))
            THEN /\ todo' = {}
                 /\ pc' = "while_page"
                 /\ UNCHANGED <<product_url, product_host, product_session,
                                product_data, est_url, est_ret, fetch>>
            ELSE /\ todo' = todo \ {u}
                 /\ product_url' = u
                 /\ product_host' = ProductHost(u, market_name)
                 /\ UNCHANGED product_data
                 /\ IF host_sessions[ProductHost(u, market_name)] = NoSession
                    THEN /\ CallEstablish(u, "prod_fetch")
                         /\ UNCHANGED <<product_session, fetch>>
                    ELSE /\ product_session' = host_sessions[ProductHost(u, market_name)]
                         /\ fetch' = CallFetch(host_sessions[ProductHost(u, market_name)],
                                               u, DefaultRetries)
                         /\ pc' = "prod_fetch"
                         /\ UNCHANGED <<est_url, est_ret>>
    /\ UNCHANGED <<sessobs, prodobs, any_failed>>
    /\ UNCHANGED <<extvars, walkobs>>
    /\ UNCHANGED <<cfgvars, cat_idx, category_url, market_name, session, driver,
                   host_sessions, all_products, scraped_urls, walkvars, save_from,
                   obsvars>>

\* lines 255-261: the record scrape_product_page builds
ProductRecord(market, page, url, doc) ==
    [market |-> market, category_page |-> page, product_url |-> url,
     fetched_at |-> Timestamp, html |-> doc]

\* lines 251-261 and 473: scrape_product_page returns the record, or None
ProductFetched ==
    /\ pc = "prod_fetch"
    /\ fetch.status = "returned"
    /\ product_data' = IF fetch.result = NoDoc THEN NoRecord
                       ELSE ProductRecord(product_host, current_page, product_url,
                                          fetch.result)
    /\ fetch' = IdleFetch
    /\ last_product_event' = "fetch"
    /\ product_events' = Append(product_events, "fetch_page_html")
    /\ attempted' = attempted \cup {product_url}
    /\ pc' = "prod_result"
    /\ UNCHANGED <<sessobs, any_failed>>
    /\ UNCHANGED <<extvars, walkobs>>
    /\ UNCHANGED <<cfgvars, cat_idx, category_url, market_name, session, driver,
                   host_sessions, all_products, scraped_urls, walkvars, todo,
                   product_url, product_host, product_session, est_url, est_ret,
                   save_from, obsvars>>

\* lines 479-483: after a failed product the iteration goes on to the delay
AfterFailedProductStops == "save"

AfterFailedProductSkipsDelay == "for_product"

AfterFailedProductLeavesPage == "while_page"

AfterFailedProduct == "prod_delay"

\* lines 475-476 and 479-480
ProductResult ==
    /\ pc = "prod_result"
    /\ IF product_data # NoRecord
       THEN /\ all_products' = Append(all_products, product_data)
            /\ pc' = "prod_mark"
       ELSE /\ pc' = AfterFailedProduct
            /\ UNCHANGED all_products
    /\ UNCHANGED <<sessobs, prodobs, any_failed>>
    /\ UNCHANGED <<extvars, walkobs>>
    /\ UNCHANGED <<cfgvars, cat_idx, category_url, market_name, session, driver,
                   host_sessions, scraped_urls, walkvars, prodvars, framevars, obsvars>>

\* line 477: scraped_urls.add(product_url)
MarkScrapedForgets(scraped, url) == scraped

MarkScraped(scraped, url) == scraped \cup {url}

\* line 477
ProductMark ==
    /\ pc = "prod_mark"
    /\ scraped_urls' = MarkScraped(scraped_urls, product_url)
    /\ pc' = "prod_delay"
    /\ UNCHANGED <<sessobs, prodobs, any_failed>>
    /\ UNCHANGED <<extvars, walkobs>>
    /\ UNCHANGED <<cfgvars, cat_idx, category_url, market_name, session, driver,
                   host_sessions, all_products, walkvars, prodvars, framevars, obsvars>>

\* line 483; the locals of the iteration are not read again before they are assigned
ProductDelay ==
    /\ pc = "prod_delay"
    /\ product_url' = NoUrl
    /\ product_host' = ""
    /\ product_session' = NoSession
    /\ product_data' = NoRecord
    /\ last_product_event' = "delay"
    /\ product_events' = <<>>
    /\ pc' = "for_product"
    /\ UNCHANGED <<sessobs, attempted, any_failed>>
    /\ UNCHANGED <<extvars, walkobs>>
    /\ UNCHANGED <<cfgvars, cat_idx, category_url, market_name, session, driver,
                   host_sessions, all_products, scraped_urls, walkvars, todo,
                   framevars, obsvars>>

\* lines 485-486
CategoryEnd ==
    /\ pc = "category_end"
    /\ pc' = IF CapReached(max_products, Len(all_products)) THEN "save" ELSE "for_category"
    /\ UNCHANGED <<sessobs, prodobs, any_failed>>
    /\ UNCHANGED <<extvars, walkobs>>
    /\ UNCHANGED <<cfgvars, cat_idx, category_url, market_name, session, driver,
                   host_sessions, all_products, scraped_urls, walkvars, prodvars,
                   framevars, obsvars>>

(***************************************************************************)
(* save_products_html and the ways out of the try block                    *)
(***************************************************************************)
\* where save_products_html returns to
AfterSave == IF save_from = "normal" THEN "post_save" ELSE "finally"

\* line 493: save_products_html(all_products, output_file, overwrite=True) is called
SaveCall ==
    /\ pc = "save"
    /\ saves' = Append(saves, all_products)
    /\ save_from' = "normal"
    /\ pc' = "save_open"
    /\ UNCHANGED <<sessobs, prodobs, any_failed>>
    /\ UNCHANGED <<extvars, walkobs>>
    /\ UNCHANGED <<cfgvars, cat_idx, category_url, market_name, session, driver,
                   host_sessions, all_products, scraped_urls, walkvars, prodvars,
                   est_url, est_ret, fetch, file, outcome, int_at, fail_cause,
                   fetch_log, page_events, pages_fetched, fetched_ok, crawled>>

\* line 72: open(output_path, 'w') creates or empties the file
SaveOpen ==
    /\ pc = "save_open"
    /\ file' = [state |-> "partial", content |-> <<>>]
    /\ pc' = "save_dump"
    /\ UNCHANGED <<sessobs, prodobs, any_failed>>
    /\ UNCHANGED <<extvars, walkobs>>
    /\ UNCHANGED <<cfgvars, cat_idx, category_url, market_name, session, driver,
                   host_sessions, all_products, scraped_urls, walkvars, prodvars,
                   framevars, saves, outcome, int_at, fail_cause, fetch_log,
                   page_events, pages_fetched, fetched_ok, crawled>>

\* lines 73-74: json.dump writes the whole array
SaveDump ==
    /\ pc = "save_dump"
    /\ file' = [state |-> "complete", content |-> saves[Len(saves)]]
    /\ pc' = AfterSave
    /\ UNCHANGED <<sessobs, prodobs, any_failed>>
    /\ UNCHANGED <<extvars, walkobs>>
    /\ UNCHANGED <<cfgvars, cat_idx, category_url, market_name, session, driver,
                   host_sessions, all_products, scraped_urls, walkvars, prodvars,
                   framevars, saves, outcome, int_at, fail_cause, fetch_log,
                   page_events, pages_fetched, fetched_ok, crawled>>

\* lines 75-76: a write error is printed and swallowed; the file stays as far as it got
SaveDumpFail ==
    /\ pc = "save_dump"
    /\ pc' = AfterSave
    /\ UNCHANGED <<sessobs, prodobs, any_failed>>
    /\ UNCHANGED <<extvars, walkobs>>
    /\ UNCHANGED <<cfgvars, cat_idx, category_url, market_name, session, driver,
                   host_sessions, all_products, scraped_urls, walkvars, prodvars,
                   framevars, obsvars>>

\* lines 495-497: the try block ends normally
PostSave ==
    /\ pc = "post_save"
    /\ outcome' = "COMPLETED"
    /\ pc' = "finally"
    /\ UNCHANGED <<sessobs, prodobs, any_failed>>
    /\ UNCHANGED <<extvars, walkobs>>
    /\ UNCHANGED <<cfgvars, cat_idx, category_url, market_name, session, driver,
                   host_sessions, all_products, scraped_urls, walkvars, prodvars,
                   framevars, file, saves, int_at, fail_cause, fetch_log,
                   page_events, pages_fetched, fetched_ok, crawled>>

\* the positions inside the try block of lines 398-497
InTry ==
    \/ pc \in {"for_category", "establish_session", "ensure_driver", "navigate",
               "walk_init", "while_page", "page_fetch1", "page_fetch2",
               "page_abandon", "for_product", "prod_fetch", "prod_result",
               "prod_mark", "prod_delay", "category_end", "save", "post_save"}
    \/ pc \in {"save_open", "save_dump"} /\ save_from = "normal"

\* the operator presses Ctrl-C: KeyboardInterrupt is raised wherever main() is inside
\* the try block; a second Ctrl-C, inside the handler, is not modelled
Interrupt ==
    /\ InTry
    /\ int_at' = IF fetch.status = "running" THEN "GET" ELSE "between requests"
    /\ outcome' = "INTERRUPTED"
    /\ fetch' = IdleFetch
    /\ pc' = "except_interrupt"
    /\ DropLocals
    /\ UNCHANGED <<sessobs, last_product_event, attempted, any_failed>>
    /\ UNCHANGED extvars
    /\ UNCHANGED <<cfgvars, cat_idx, driver,
                   host_sessions, all_products, scraped_urls,
                   est_url, save_from, file, saves, fail_cause, fetch_log,
                   fetched_ok, crawled>>

\* lines 499-503: the records are saved only if there are any
ExceptInterrupt ==
    /\ pc = "except_interrupt"
    /\ IF all_products # <<>>
       THEN /\ saves' = Append(saves, all_products)
            /\ save_from' = "interrupt"
            /\ pc' = "save_open"
       ELSE /\ pc' = "finally"
            /\ UNCHANGED <<saves, save_from>>
    /\ UNCHANGED <<sessobs, prodobs, any_failed>>
    /\ UNCHANGED <<extvars, walkobs>>
    /\ UNCHANGED <<cfgvars, cat_idx, category_url, market_name, session, driver,
                   host_sessions, all_products, scraped_urls, walkvars, prodvars,
                   est_url, est_ret, fetch, file, outcome, int_at, fail_cause,
                   fetch_log, page_events, pages_fetched, fetched_ok, crawled>>

\* lines 505-508: the error and its traceback are printed
ExceptException ==
    /\ pc = "except_exception"
    /\ outcome' = "FAILED"
    /\ pc' = "finally"
    /\ UNCHANGED <<sessobs, prodobs, any_failed>>
    /\ UNCHANGED <<extvars, walkobs>>
    /\ UNCHANGED <<cfgvars, cat_idx, category_url, market_name, session, driver,
                   host_sessions, all_products, scraped_urls, walkvars, prodvars,
                   framevars, file, saves, int_at, fail_cause, fetch_log,
                   page_events, pages_fetched, fetched_ok, crawled>>

\* lines 510-522: the browser is closed unless --keep-browser-open was given, and
\* main() returns; the option is read nowhere else, so its value is chosen here
Finally ==
    /\ pc = "finally"
    /\ \E keep_browser_open \in BOOLEAN :
          driver' = IF driver = "open" /\ ~keep_browser_open THEN "closed" ELSE driver
    /\ pc' = "done"
    /\ UNCHANGED <<sessobs, prodobs, any_failed>>
    /\ UNCHANGED <<extvars, walkobs>>
    /\ UNCHANGED <<cfgvars, cat_idx, category_url, market_name, session,
                   host_sessions, all_products, scraped_urls, walkvars, prodvars,
                   framevars, obsvars>>

(***************************************************************************)
(* Specifications                                                          *)
(***************************************************************************)
\* the steps of a run in which nothing raises and nobody interrupts
NextLive ==
    \/ ForCategory \/ EstablishEntry \/ EnsureDriverOk \/ NavigateOk
    \/ WalkInit \/ WhilePage
    \/ FetchOk \/ FetchStatus \/ FetchError
    \/ PageFetched1 \/ PageFetched2 \/ PageAbandon
    \/ ForProduct \/ ProductFetched \/ ProductResult \/ ProductMark \/ ProductDelay
    \/ CategoryEnd \/ SaveCall \/ SaveOpen \/ SaveDump \/ PostSave \/ Finally

Next ==
    \/ NextLive
    \/ FetchRaise \/ FetchPropagates \/ EnsureDriverFail \/ NavigateFail
    \/ SaveDumpFail \/ Interrupt \/ ExceptInterrupt \/ ExceptException

Spec == Init /\ [][Next]_vars

\* unlimited pages; the program always takes its next step
InitLive == Init /\ max_pages_per_category = 0

LiveSpec == InitLive /\ [][NextLive]_vars /\ WF_vars(NextLive)

(***************************************************************************)
(* Properties                                                              *)
(***************************************************************************)
\* the page queue never uses up the room the model gives it
QueueRoomFree == Len(page_queue) < QueueCap

\* no two records of a sequence have the same product URL
NoDuplicateUrl(records) ==
    \A i, j \in 1..Len(records) :
        i # j => records[i].product_url # records[j].product_url

\* a record holds its product URL, its source page URL, its timestamp and its document
Complete(r) ==
    /\ r.product_url # NoUrl
    /\ r.category_page # NoUrl
    /\ r.fetched_at # ""
    /\ r.html # NoDoc

\* C1: a run ended by an uncaught exception other than the operator's interrupt
\* has written exactly the records accumulated so far to the output file.
C1_FailedRunWritesAccumulated ==
    (pc = "done" /\ outcome = "FAILED")
        => (file.state = "complete" /\ file.content = all_products)

\* C2: a run interrupted by the operator while no request is in flight has written
\* an output file holding exactly one complete record for every product whose
\* fetch had succeeded.
C2_InterruptedRunWritesEveryFetched ==
    (pc = "done" /\ outcome = "INTERRUPTED" /\ int_at # "GET")
        => /\ file.state = "complete"
           /\ Len(file.content) = Cardinality(fetched_ok)
           /\ {file.content[i].product_url : i \in 1..Len(file.content)} = fetched_ok
           /\ \A i \in 1..Len(file.content) : Complete(file.content[i])

\* C3: every run that has left the crawl loop has called save_products_html exactly
\* once, with the accumulator as it stood, also when the accumulator was empty.
C3_SinkCalledExactlyOnce ==
    pc = "done" => (Len(saves) = 1 /\ saves[1] = all_products)

\* C4: at every moment of a run the accumulator holds no two records with the same
\* product URL, and neither does anything handed to the sink or written to the file.
C4_NoDuplicateRecords ==
    /\ NoDuplicateUrl(all_products)
    /\ NoDuplicateUrl(file.content)
    /\ \A k \in 1..Len(saves) : NoDuplicateUrl(saves[k])

\* a product recorded from category A1 was met again on the seed page of category B1
\* and skipped
C4_Witness ==
    /\ pc = "for_product"
    /\ max_products = 0
    /\ category_url = B1
    /\ current_page = B1
    /\ P1 \notin todo
    /\ \E i \in 1..Len(all_products) :
          all_products[i].product_url = P1 /\ all_products[i].category_page = A1

\* C5: every GET of a run is sent with a session bootstrapped for the host of the
\* URL it fetches.
C5_FetchUsesSessionOfItsOrigin ==
    \A e \in fetch_log : e.url_host = e.sess_host

\* C6: with a page limit > 0 the walk of one category fetches at most that many
\* distinct page URLs.
C6_WalkFetchesAtMostPageLimit ==
    max_pages_per_category > 0
        => Cardinality(pages_fetched) <= max_pages_per_category

\* C7: with no page limit, the walk of a category over the cyclic pagination graph
\* ends with an empty page queue, whatever the page fetches return.
C7_UnlimitedWalkEmptiesQueue ==
    []((pc = "walk_init" /\ max_pages_per_category = 0)
          => <>(pc = "category_end" /\ page_queue = <<>>))

\* an unlimited walk has ended after scraping A1 and A2, which link to each other
C7_Witness ==
    /\ pc = "category_end"
    /\ page_queue = <<>>
    /\ page_limit = NoLimit
    /\ {A1, A2} \subseteq pages_seen
    /\ pages_scraped >= 2

\* every attempt of the call failed, by status or by transport error
AllAttemptsFailed(log) == \A i \in 1..Len(log) : log[i] \in {"status", "error"}

\* C8: fetch_page_html with retries = k never sends more than k GETs, and when all
\* its attempts failed it returns None after exactly k GETs.
C8_ExactlyKGetsThenNone ==
    /\ fetch.gets <= fetch.retries
    /\ (fetch.status = "returned" /\ AllAttemptsFailed(fetch.log))
          => (fetch.gets = fetch.retries /\ fetch.result = NoDoc)

\* a call with retries = 3 has returned after failures of both kinds
C8_Witness ==
    /\ pc = "fetch_page_html"
    /\ fetch.status = "returned"
    /\ fetch.retries = 3
    /\ fetch.log = <<"status", "error", "status">>

\* C9 as amended: a listing page is abandoned after exactly this sequence of events:
\* the GETs of the first fetch_page_html call, the drop of the stored session of the
\* page's host, one bootstrap, and one more fetch_page_html call that again sends
\* DefaultRetries GETs; the fresh session stays stored.
C9_AbandonedAfterOneRefreshedCall ==
    pc = "page_abandon"
        => /\ page_events = Rep("get", DefaultRetries) \o <<"refresh", "bootstrap">>
                               \o Rep("get", DefaultRetries)
           /\ host_sessions[netloc(current_page)] = Session(netloc(current_page))

\* a page of the category's own host has been abandoned
C9_Witness ==
    /\ pc = "page_abandon"
    /\ netloc(current_page) = market_name
    /\ Len(page_events) = 2 * DefaultRetries + 2

\* C9 as stated: after the refresh and the one bootstrap exactly one more GET is sent
\* before the page is abandoned.
C9_OneGetAfterRefresh ==
    pc = "page_abandon"
        => page_events = Rep("get", DefaultRetries) \o <<"refresh", "bootstrap", "get">>

\* C10: after a failed bootstrap, every later seed category of another host has
\* still been crawled when the run ends.
C10_BootstrapFailureSparesOtherHosts ==
    (pc = "done" /\ fail_cause = "bootstrap")
        => \A i \in 1..Len(category_urls) :
              (i > cat_idx /\ netloc(category_urls[i]) # netloc(est_url))
                  => i \in crawled

\* scrape_product_page has returned None for the product in hand
FailedProduct == pc = "prod_result" /\ product_data = NoRecord

\* C11: a product whose fetch returned no document gets no record and costs no
\* pending product link or page, and the run goes on to its normal completion: the
\* product loop is left only with every link of the page worked off (or the cap
\* reached), the walk only with an empty queue, and the run completes only with
\* every category walked (or the cap reached).
C11_FailedProductDoesNotStopRun ==
    /\ [][FailedProduct => /\ all_products' = all_products
                           /\ todo' = todo
                           /\ page_queue' = page_queue]_vars
    /\ [](pc = "while_page" => (todo = {} \/ CapReached(max_products, Len(all_products))))
    /\ [](pc = "category_end" => page_queue = <<>>)
    /\ [](pc = "done" /\ outcome = "COMPLETED"
            => \/ CapReached(max_products, Len(all_products))
               \/ crawled = 1..Len(category_urls))
    /\ [](FailedProduct => <>(pc = "done" /\ outcome = "COMPLETED"))

\* a product has failed while a product link, a page and a category are still to come
C11_Witness ==
    /\ FailedProduct
    /\ todo # {}
    /\ page_queue # <<>>
    /\ cat_idx < Len(category_urls)

\* C12: once the accumulator has reached the product cap no GET is sent any more
\* (when the cap is reached no call of fetch_page_html is open, so a call with GETs
\* in a state with the cap reached was made afterwards).
C12_NoFetchAfterCap ==
    CapReached(max_products, Len(all_products)) => fetch.gets = 0

\* C13: with a product cap c > 0 the accumulator never holds more than c records, nor
\* does what is handed to the sink or written to the file.
C13_AccumulatorWithinCap ==
    max_products > 0
        => /\ Len(all_products) <= max_products
           /\ Len(file.content) <= max_products
           /\ \A k \in 1..Len(saves) : Len(saves[k]) <= max_products

\* a run of two categories has completed with the cap reached in the first of them
C13_Witness ==
    /\ pc = "done"
    /\ outcome = "COMPLETED"
    /\ max_products > 0
    /\ file.state = "complete"
    /\ Len(file.content) = max_products
    /\ Len(category_urls) = 2
    /\ crawled = {1}

\* C14 as amended: the browser is used by establish_session only while no session is
\* stored for the host, and for every host the bootstraps completed are the stored
\* sessions dropped, plus one while a session is stored.
C14_BootstrapOnlyWithoutSession ==
    /\ pc \in {"ensure_driver", "navigate"} => host_sessions[netloc(est_url)] = NoSession
    /\ \A h \in Hosts :
          boots[h] = inval[h] + (IF host_sessions[h] # NoSession THEN 1 ELSE 0)

\* the session of host a, bootstrapped a second time after a drop, is reused for a product
C14_Witness ==
    /\ pc = "prod_fetch"
    /\ product_events = <<>>
    /\ boots["a"] = 2
    /\ inval["a"] = 1
    /\ product_session = host_sessions["a"]
    /\ host_sessions["a"] # NoSession

\* C14 as stated: over a run the bootstraps of a host that was bootstrapped at all are
\* one more than the invalidations of its session.
C14_BootstrapsOneMoreThanInvalidations ==
    pc = "done" => \A h \in Hosts : boots[h] > 0 => boots[h] = 1 + inval[h]

\* scrape_product_page is about to be entered, or the session for it is being set up
ProductFetchStarts ==
    \/ pc = "prod_fetch"
    \/ pc \in {"establish_session", "ensure_driver", "navigate"} /\ est_ret = "prod_fetch"

\* C15: a product fetch never starts while the last thing done for a product was a
\* fetch: the delay of line 483 has taken place since.
C15_DelayBetweenProductFetches ==
    ProductFetchStarts => last_product_event # "fetch"

\* the first product of the second category's seed page is fetched after the delay
\* that followed a failed product of the first category
C15_Witness ==
    /\ pc = "prod_fetch"
    /\ last_product_event = "delay"
    /\ all_products = <<>>
    /\ cat_idx = 2
    /\ current_page = category_url
    /\ pages_scraped = 1
    /\ Cardinality(todo) = 1

\* C16: a product is given up only after a second fetch_page_html call, made with a
\* freshly bootstrapped session.
C16_FailedProductIsRefetchedOnce ==
    FailedProduct
        => /\ Len(SelectSeq(product_events, LAMBDA e : e = "fetch_page_html")) = 2
           /\ product_events[Len(product_events) - 1] = "bootstrap"

\* the product URLs found on the seed pages
SeedProducts == UNION {ProductsOf(category_urls[i]) : i \in 1..Len(category_urls)}

\* the product URLs of a sequence of records
UrlsOf(records) == {records[i].product_url : i \in 1..Len(records)}

\* C17: with page limit 1 and no failed GET the listing pages fetched in the walk of
\* a category are its seed page and nothing else, and a completed run without product cap hands the sink,
\* and writes, exactly one record for each product URL of the seed pages.
C17_SeedPagesOnly ==
    (max_pages_per_category = 1 /\ ~any_failed)
        => /\ Cardinality(pages_fetched) <= 1
           /\ pages_fetched \subseteq {category_urls[i] : i \in 1..Len(category_urls)}
           /\ pc = "category_end" => pages_fetched = {category_url}
           /\ (pc = "done" /\ outcome = "COMPLETED" /\ max_products = 0)
                 => /\ Len(saves) = 1
                    /\ UrlsOf(saves[1]) = SeedProducts
                    /\ NoDuplicateUrl(saves[1])
                    /\ file.state = "complete" => file.content = saves[1]

\* a run over two seed pages that link to further pages has completed with 3 records
C17_Witness ==
    /\ pc = "done"
    /\ outcome = "COMPLETED"
    /\ max_pages_per_category = 1
    /\ max_products = 0
    /\ ~any_failed
    /\ Len(category_urls) = 2
    /\ file.state = "complete"
    /\ Len(file.content) = 3

\* C18: a product URL handed to scrape_product_page was never handed to it before.
C18_ProductHandedToFetchOnce ==
    pc = "prod_fetch" => product_url \notin attempted

\* C19: the output file is never seen partly written.
C19_FileNeverPartial ==
    file.state # "partial"

\* C20: at most one browser is started in a run, every bootstrap runs in it, and it is
\* closed only when main() is over.
C20_OneBrowserKeptUntilEnd ==
    /\ browser_starts <= 1
    /\ pc = "navigate" => (driver = "open" /\ browser_starts = 1)
    /\ (\E h \in Hosts : boots[h] > 0) => browser_starts = 1
    /\ driver = "closed" => pc = "done"

\* both hosts were bootstrapped, host a twice, in the one browser, closed at the end
C20_Witness ==
    /\ pc = "done"
    /\ driver = "closed"
    /\ browser_starts = 1
    /\ boots["a"] >= 2
    /\ boots["b"] >= 1

\* establish_session is running
Establishing == pc \in {"establish_session", "ensure_driver", "navigate"}

\* a listing page is dequeued and its scrape_category_page calls are not over
PageInFlight ==
    \/ pc \in {"page_fetch1", "page_fetch2"}
    \/ Establishing /\ est_ret = "page_fetch2"

\* the positions of the walk of one category, from the seeding of the queue on
InWalk ==
    \/ pc \in {"while_page", "page_fetch1", "page_fetch2", "page_abandon",
               "for_product", "prod_fetch", "prod_result", "prod_mark", "prod_delay"}
    \/ Establishing /\ est_ret \in {"page_fetch2", "prod_fetch"}

\* C21: in every state of a category's walk the seen-set has at least as many
\* members as the page queue has entries plus the number of URLs dequeued so far.
C21_SeenCoversQueueAndDequeued ==
    InWalk => Cardinality(pages_seen) >= Len(page_queue) + dequeued

\* C22: no page URL is put on the page queue twice within a walk, so the queue
\* never holds a URL at two places.
C22_QueueHasNoRepeats ==
    \A i, j \in 1..Len(page_queue) : page_queue[i] = page_queue[j] => i = j

\* C23: a page given up after the refreshed retry is not fetched again in the walk,
\* giving it up takes no link and no product from it, and the walk goes on until the
\* queue is empty (or the page limit is reached).
C23_AbandonedPageIsDropped ==
    /\ [](pc = "page_fetch1" => current_page \notin abandoned)
    /\ [][(pc = "page_abandon" \/ pc' = "page_abandon")
            => /\ page_queue' = page_queue
               /\ todo' = todo
               /\ all_products' = all_products]_vars
    /\ [](pc = "category_end"
            => (page_queue = <<>> \/ LimitReached(page_limit, pages_scraped)))
    /\ [](pc = "page_abandon" => <>(pc = "category_end"))

\* page B1 is given up while the queue still holds a second copy of its URL
C23_Witness ==
    /\ pc = "page_abandon"
    /\ current_page = B1
    /\ page_queue = <<B1>>

\* C24: a fetch_page_html call that has made all its attempts in vain has paused
\* between every two consecutive attempts and not after the last one.
C24_PauseBetweenAllAttempts ==
    (fetch.status = "returned" /\ fetch.result = NoDoc)
        => fetch.sleeps = fetch.gets - 1

\* C25: when the selectors yield nothing, extract_product_links returns exactly the
\* links that are product-like (an indicator, or one of the two special shapes),
\* hold no excluded pattern and differ from base_url; so no returned link holds an
\* excluded pattern or is base_url.
C25_FallbackReturnsFilteredLinks ==
    (pc = "extract_returned" /\ StructuralLinks(html_links) = {})
        => /\ product_links = {l \in html_links :
                                  /\ l.indicator \/ l.uuid \/ l.view
                                  /\ ~l.excluded
                                  /\ ~l.is_base}
           /\ \A l \in product_links : ~l.excluded /\ ~l.is_base

\* C26: after an interrupted run every product whose fetch had succeeded has its
\* record in the output file.
C26_InterruptKeepsEveryFetched ==
    (pc = "done" /\ outcome = "INTERRUPTED")
        => fetched_ok \subseteq UrlsOf(file.content)

\* C27: whenever no product is half-way between lines 476 and 477, scraped_urls is
\* the set of the product URLs in all_products, and a product that has just failed
\* is not in scraped_urls.
C27_SeenSetIsRecordedUrls ==
    /\ (InTry /\ pc # "prod_mark") => scraped_urls = UrlsOf(all_products)
    /\ (pc = "prod_delay" /\ product_data = NoRecord) => product_url \notin scraped_urls

\* a product has failed after two others were recorded
C27_Witness ==
    /\ pc = "prod_delay"
    /\ product_data = NoRecord
    /\ Len(all_products) = 2

\* C28: pages_scraped is the number of dequeued pages that were neither given up nor
\* are still being fetched, however many URLs were dequeued, and under a page limit
\* it never exceeds the limit.
C28_PagesScrapedCountsSuccesses ==
    /\ abandoned \subseteq pages_seen
    /\ pages_scraped = Cardinality(pages_seen \ abandoned)
                          - (IF PageInFlight THEN 1 ELSE 0)
    /\ pages_scraped <= dequeued
    /\ page_limit > 0 => pages_scraped <= page_limit

\* of four URLs dequeued one was skipped as seen and one page was given up
C28_Witness ==
    /\ pc = "while_page"
    /\ dequeued = 4
    /\ Cardinality(pages_seen) = 3
    /\ Cardinality(abandoned) = 1
    /\ pages_scraped = 2

\* C29: whenever a listing page is dequeued or fetched no product link of an earlier
\* page is pending, and whenever a category is started the queue of the one before is
\* empty (or its page limit is reached).
C29_ProductsBeforeNextPage ==
    /\ (pc \in {"while_page", "page_abandon"} \/ PageInFlight) => todo = {}
    /\ (pc \in {"for_category", "walk_init"} \/ (Establishing /\ est_ret = "walk_init"))
          => (page_queue = <<>> \/ LimitReached(page_limit, pages_scraped))

\* the second page of the second category is fetched after the three products met so
\* far were fetched or skipped
C29_Witness ==
    /\ pc = "page_fetch1"
    /\ cat_idx = 2
    /\ current_page = A2
    /\ Cardinality(attempted) = 3
    /\ Len(all_products) = 2
    /\ todo = {}

\* the URL whose host establish_session or refresh_session is working for
SessionTarget == IF Establishing THEN est_url ELSE current_page

\* C30: a step of establish_session, or the drop of refresh_session, leaves the
\* stored sessions of all other hosts, all_products and scraped_urls as they are, and
\* unless it raises also the page queue and the seen-set of the walk.
C30_SessionSetupFrame ==
    [][(Establishing \/ (pc = "page_fetch1" /\ pc' = "establish_session"))
          => /\ \A h \in Hosts \ {netloc(SessionTarget)} :
                    host_sessions'[h] = host_sessions[h]
             /\ all_products' = all_products
             /\ scraped_urls' = scraped_urls
             /\ pc' \notin {"except_exception", "except_interrupt"}
                   => (page_queue' = page_queue /\ pages_seen' = pages_seen)]_vars

\* the session of host a was refreshed for a page while host b had a stored session,
\* records were accumulated and a page was waiting in the queue
C30_Witness ==
    /\ pc = "page_fetch2"
    /\ boots["a"] = 2
    /\ host_sessions["a"] # NoSession
    /\ host_sessions["b"] # NoSession
    /\ all_products # <<>>
    /\ page_queue # <<>>

====
